---- MODULE Spec2Model ----
(***************************************************************************)
(* NSEC3 denial-of-existence verification of solvere (nsec.go).            *)
(*                                                                         *)
(* A domain name is the sequence of the tokens of its presentation form:   *)
(* "b.a." is <<"b", ".", "a", ".">>, the root "." is <<".">> and the Go    *)
(* empty string "" is <<>>.  A label is one token, so that slicing a name  *)
(* at a label index (name[labelIndices[i]:]) is SubSeq on the tokens.      *)
(*                                                                         *)
(* An NSEC3 record is [Name, NextDomain, TypeBitMap, Flags]: the owner     *)
(* hash, the next hashed owner, the type bitmap and the flags octet.       *)
(***************************************************************************)
EXTENDS Integers, Sequences, FiniteSets

VARIABLES nsec, op, name, qtype, err, ce, nc

vars == <<nsec, op, name, qtype, err, ce, nc>>

(* ---------------------------- bounds ----------------------------------- *)

MaxLabels == 2

MaxRecords == 2

(* ---------------------- protocol constants ----------------------------- *)

TypeNS == 2

TypeCNAME == 5

TypeSOA == 6

TypeDS == 43

ErrNone == "nil"

ErrNSECTypeExists == "ErrNSECTypeExists"

ErrNSECMissingCoverage == "ErrNSECMissingCoverage"

ErrNSECBadDelegation == "ErrNSECBadDelegation"

ErrNSECNSMissing == "ErrNSECNSMissing"

ErrNSECOptOut == "ErrNSECOptOut"

(* ------------------------------ names ---------------------------------- *)

Empty == <<>>

Root == <<".">>

LabelPool == <<"a", "b", "c", "d", "e", "f">>

RECURSIVE NameOf(_)
NameOf(k) == IF k = 0 THEN Empty ELSE <<LabelPool[k], ".">> \o NameOf(k - 1)

\* The names a question or a delegation may carry: 1 .. MaxLabels labels.
QNames == {NameOf(k) : k \in 1..MaxLabels}

\* fmt.Sprintf("*.%s", ce)
Wildcard(n) == <<"*", ".">> \o n

\* dns.Split: the start index of every label; nil for the root.
Split(s) ==
    IF s = Root THEN <<>>
    ELSE SelectSeq([i \in 1..Len(s) |-> i], LAMBDA i : i = 1 \/ s[i - 1] = ".")

\* name[i:]
From(s, i) == SubSeq(s, i, Len(s))

\* Every suffix of n at a label boundary, the root included.
Suffixes(n) == {From(n, Split(n)[i]) : i \in 1..Len(Split(n))} \cup {Root}

(* --------------------------- hashed names ------------------------------ *)

\* Size of the hash ring: one point for the root and for every suffix of the
\* longest name, and one for the wildcard name under each of them.
HashSpace == 2 * MaxLabels + 2

\* dns.HashName: an injective stand-in for the salted, iterated SHA-1.  Every
\* name the verifiers can look up gets a point of its own on the ring; the
\* wildcard of a name is told from the name by its leading "*" label.
HashName(n) ==
    LET wild == Len(n) > 0 /\ n[1] = "*"
        base == IF wild THEN Tail(Tail(n)) ELSE n
        idx == (IF Len(base) <= 1 THEN 0 ELSE Len(base)) + (IF wild THEN 1 ELSE 0)
    IN  ((HashSpace - 1) * idx + 3) % HashSpace

Hashes == 0..(HashSpace - 1)

\* rr.(*dns.NSEC3).Match(name): the hashed name is the record's owner hash.
Match(rr, n) == HashName(n) = rr.Name

\* rr.(*dns.NSEC3).Cover(name): the hashed name lies strictly inside the ring
\* interval (owner, next); owner = next spans the whole ring but the owner.
Cover(rr, n) ==
    LET h == HashName(n)
    IN  IF rr.Name = rr.NextDomain THEN h # rr.Name
        ELSE IF rr.Name > rr.NextDomain THEN h > rr.Name \/ h < rr.NextDomain
        ELSE rr.Name < h /\ h < rr.NextDomain

(* ----------------------------- records --------------------------------- *)

\* The type bitmaps a record may carry: any of NS, SOA and DS together, or
\* CNAME, which stands alone at a name (RFC 1034 Section 3.6.2).
BitMaps == (SUBSET {TypeNS, TypeSOA, TypeDS}) \cup {{TypeCNAME}}

QTypes == {TypeNS, TypeDS}

Records ==
    [Name : Hashes, NextDomain : Hashes, TypeBitMap : BitMaps,
     Flags : 0..1]

\* Is rrs a record set of at most MaxRecords records?
IsRecordSet(rrs) == \E n \in 0..MaxRecords : rrs \in [1..n -> Records]

(* ---------------------------- functions -------------------------------- *)

typesSet(set, types) == \E t \in set : t \in types

RECURSIVE ScanMatch(_, _, _)
ScanMatch(n, rrs, i) ==
    IF i > Len(rrs) THEN [types |-> {}, err |-> ErrNSECMissingCoverage]
    ELSE IF Match(rrs[i], n) THEN [types |-> rrs[i].TypeBitMap, err |-> ErrNone]
    ELSE ScanMatch(n, rrs, i + 1)

findMatching(n, rrs) == ScanMatch(n, rrs, 1)

RECURSIVE ScanCover(_, _, _)
ScanCover(n, rrs, i) ==
    IF i > Len(rrs)
    THEN [types |-> {}, optOut |-> FALSE, err |-> ErrNSECMissingCoverage]
    ELSE IF Cover(rrs[i], n)
    THEN [types |-> rrs[i].TypeBitMap, optOut |-> (rrs[i].Flags % 2) = 1,
          err |-> ErrNone]
    ELSE ScanCover(n, rrs, i + 1)

\* Mutant: the opt-out flag is read from the head of the record set, not from
\* the covering record.
findCoverer_HeadFlags(n, rrs) ==
    LET c == ScanCover(n, rrs, 1)
    IN  IF c.err # ErrNone THEN c
        ELSE [c EXCEPT !.optOut = (rrs[1].Flags % 2) = 1]

findCoverer(n, rrs) == ScanCover(n, rrs, 1)

RECURSIVE EncloserLoop(_, _, _, _)
EncloserLoop(n, rrs, labelIndices, i) ==
    IF i > Len(labelIndices) THEN <<Empty, Empty>>
    ELSE LET z == From(n, labelIndices[i])
         IN  IF findMatching(z, rrs).err # ErrNone
             THEN EncloserLoop(n, rrs, labelIndices, i + 1)
             ELSE <<z, IF i # 1 THEN From(n, labelIndices[i - 1]) ELSE n>>

\* Mutant: the next closer name is sliced at index i, not at i - 1.
findClosestEncloser_SameIndex(n, rrs) ==
    LET r == EncloserLoop(n, rrs, Split(n), 1) IN <<r[1], r[1]>>

findClosestEncloser(n, rrs) == EncloserLoop(n, rrs, Split(n), 1)

\* What a call leaves behind: the error returned and the function's locals
\* ce and nc ("" while unassigned).
Outcome(e, c, d) == [err |-> e, ce |-> c, nc |-> d]

\* RFC 5155 Section 8.6 / 8.9 fallback: the closest encloser and a covering
\* record, with Opt-Out set, for the next closer name (nsec.go 98-109 and
\* 141-152 are the same statements).
optOutProof(n, rrs) ==
    LET e == findClosestEncloser(n, rrs)
        c == findCoverer(e[2], rrs)
    IN  IF e[1] = Empty THEN Outcome(ErrNSECMissingCoverage, e[1], e[2])
        ELSE IF c.err # ErrNone THEN Outcome(c.err, e[1], e[2])
        ELSE IF ~c.optOut THEN Outcome(ErrNSECOptOut, e[1], e[2])
        ELSE Outcome(ErrNone, e[1], e[2])

\* Mutant: the empty sentinel is not tested before the wildcard lookup.
verifyNameError_NoSentinelCheck(n, rrs) ==
    LET e == findClosestEncloser(n, rrs)
    IN  Outcome(findCoverer(Wildcard(e[1]), rrs).err, e[1], e[2])

\* nc holds the second result of findClosestEncloser, which the code drops.
verifyNameError(n, rrs) ==
    LET e == findClosestEncloser(n, rrs)
    IN  IF e[1] = Empty THEN Outcome(ErrNSECMissingCoverage, e[1], e[2])
        ELSE Outcome(findCoverer(Wildcard(e[1]), rrs).err, e[1], e[2])

\* Mutant: only the queried type is looked up in the bitmap, not CNAME.
verifyNODATA_NoCNAME(n, t, rrs) ==
    LET m == findMatching(n, rrs)
    IN  IF m.err # ErrNone
        THEN IF t # TypeDS THEN Outcome(m.err, Empty, Empty)
             ELSE optOutProof(n, rrs)
        ELSE IF typesSet(m.types, {t})
             THEN Outcome(ErrNSECTypeExists, Empty, Empty)
        ELSE Outcome(ErrNone, Empty, Empty)

verifyNODATA(n, t, rrs) ==
    LET m == findMatching(n, rrs)
    IN  IF m.err # ErrNone
        THEN IF t # TypeDS THEN Outcome(m.err, Empty, Empty)
             ELSE optOutProof(n, rrs)
        ELSE IF typesSet(m.types, {t, TypeCNAME})
             THEN Outcome(ErrNSECTypeExists, Empty, Empty)
        ELSE Outcome(ErrNone, Empty, Empty)

\* Mutant: the DS/SOA test comes before the NS test.
verifyDelegation_DSFirst(n, rrs) ==
    LET m == findMatching(n, rrs)
    IN  IF m.err # ErrNone THEN optOutProof(n, rrs)
        ELSE IF typesSet(m.types, {TypeDS, TypeSOA})
             THEN Outcome(ErrNSECBadDelegation, Empty, Empty)
        ELSE IF ~typesSet(m.types, {TypeNS})
             THEN Outcome(ErrNSECNSMissing, Empty, Empty)
        ELSE Outcome(ErrNone, Empty, Empty)

verifyDelegation(n, rrs) ==
    LET m == findMatching(n, rrs)
    IN  IF m.err # ErrNone THEN optOutProof(n, rrs)
        ELSE IF ~typesSet(m.types, {TypeNS})
             THEN Outcome(ErrNSECNSMissing, Empty, Empty)
        ELSE IF typesSet(m.types, {TypeDS, TypeSOA})
             THEN Outcome(ErrNSECBadDelegation, Empty, Empty)
        ELSE Outcome(ErrNone, Empty, Empty)

\* The call of operation o on name n, type t and record set rrs.
Invoke(o, n, t, rrs) ==
    CASE o = "findClosestEncloser" ->
            Outcome(ErrNone, findClosestEncloser(n, rrs)[1],
                    findClosestEncloser(n, rrs)[2])
      [] o = "verifyNameError" -> verifyNameError(n, rrs)
      [] o = "verifyNODATA" -> verifyNODATA(n, t, rrs)
      [] o = "verifyDelegation" -> verifyDelegation(n, rrs)

(* --------------------------- state machine ----------------------------- *)

Verifiers == {"verifyNameError", "verifyNODATA", "verifyDelegation"}

\* The caller holds a record set parsed from a response; nothing was called.
Init ==
    /\ \E n \in 0..MaxRecords : nsec \in [1..n -> Records]
    /\ op = "idle"
    /\ name = Empty
    /\ qtype = 0
    /\ err = ErrNone
    /\ ce = Empty
    /\ nc = Empty

Return(r) ==
    /\ err' = r.err
    /\ ce' = r.ce
    /\ nc' = r.nc

CallFindClosestEncloser ==
    /\ op = "idle"
    /\ op' = "findClosestEncloser"
    /\ \E n \in QNames :
        /\ name' = n
        /\ Return(Invoke("findClosestEncloser", n, qtype, nsec))
    /\ UNCHANGED <<nsec, qtype>>

CallVerifyNameError ==
    /\ op = "idle"
    /\ op' = "verifyNameError"
    /\ \E n \in QNames :
        /\ name' = n
        /\ Return(Invoke("verifyNameError", n, qtype, nsec))
    /\ UNCHANGED <<nsec, qtype>>

CallVerifyNODATA ==
    /\ op = "idle"
    /\ op' = "verifyNODATA"
    /\ \E n \in QNames, t \in QTypes :
        /\ name' = n
        /\ qtype' = t
        /\ Return(Invoke("verifyNODATA", n, t, nsec))
    /\ UNCHANGED nsec

CallVerifyDelegation ==
    /\ op = "idle"
    /\ op' = "verifyDelegation"
    /\ \E n \in QNames :
        /\ name' = n
        /\ Return(Invoke("verifyDelegation", n, qtype, nsec))
    /\ UNCHANGED <<nsec, qtype>>

\* The same call once more, on the same arguments.
CallAgain ==
    /\ op # "idle"
    /\ Return(Invoke(op, name, qtype, nsec))
    /\ UNCHANGED <<nsec, op, name, qtype>>

Next ==
    \/ CallFindClosestEncloser
    \/ CallVerifyNameError
    \/ CallVerifyNODATA
    \/ CallVerifyDelegation
    \/ CallAgain

Spec == Init /\ [][Next]_vars

TypeOK ==
    /\ op \in Verifiers \cup {"idle", "findClosestEncloser"}
    /\ IsRecordSet(nsec)

(* ------------------- vocabulary of the properties ---------------------- *)

\* Some record of the set matches / covers the name.
Matched(n) == \E i \in DOMAIN nsec : Match(nsec[i], n)

Covered(n) == \E i \in DOMAIN nsec : Cover(nsec[i], n)

\* The first record of the set, in order, that matches / covers the name.
FirstMatching(n) ==
    nsec[CHOOSE i \in DOMAIN nsec :
            Match(nsec[i], n) /\ \A j \in 1..(i - 1) : ~Match(nsec[j], n)]

FirstCovering(n) ==
    nsec[CHOOSE i \in DOMAIN nsec :
            Cover(nsec[i], n) /\ \A j \in 1..(i - 1) : ~Cover(nsec[j], n)]

\* The number of labels of a name; the root has none.
CountLabel(n) == Len(Split(n))

\* The suffixes of n that dns.Split yields: all but the root.
LabelSuffixes(n) == Suffixes(n) \ {Root}

\* RFC 5155: the closest encloser of n is its longest ancestor (n and the
\* root included) that some record matches.
HasEncloser(n) == \E s \in Suffixes(n) : Matched(s)

ClosestEncloser(n) ==
    CHOOSE s \in Suffixes(n) :
        Matched(s) /\ \A u \in Suffixes(n) : Matched(u) => Len(u) <= Len(s)

\* The next closer name: the suffix of n one label longer than the encloser a,
\* and n itself when a is n.
NextCloser(n, a) ==
    IF a = n THEN n
    ELSE CHOOSE s \in Suffixes(n) : CountLabel(s) = CountLabel(a) + 1

\* The permutations of a record set.
Reorderings(rrs) ==
    LET D == DOMAIN rrs
    IN  {[i \in D |-> rrs[p[i]]] :
            p \in {q \in [D -> D] : \A i, j \in D : q[i] = q[j] => i = j}}

\* The names a verifier may look up for the name n.
Candidates(n) == LabelSuffixes(n) \cup {Wildcard(s) : s \in LabelSuffixes(n)}

\* No candidate name is matched by two records or covered by two records.
NonAmbiguous(n) ==
    \A c \in Candidates(n) :
        /\ Cardinality({i \in DOMAIN nsec : Match(nsec[i], c)}) <= 1
        /\ Cardinality({i \in DOMAIN nsec : Cover(nsec[i], c)}) <= 1

(* ------------------------------ claims --------------------------------- *)

\* C1: whenever verifyNameError succeeds, no record matches the queried name
\* itself: the closest encloser is a strict ancestor of it.
C1_NameProvablyAbsent ==
    (op = "verifyNameError" /\ err = ErrNone) => (~Matched(name) /\ ce # name)

\* C2 as stated: on a matched delegation name the first matching record's
\* bitmap decides; DS or SOA gives BadDelegation whether or not NS is set,
\* a missing NS gives NSMissing, NS alone succeeds.
C2_BadDelegationFirst ==
    (op = "verifyDelegation" /\ Matched(name)) =>
        LET bm == FirstMatching(name).TypeBitMap
        IN  err = IF TypeDS \in bm \/ TypeSOA \in bm THEN ErrNSECBadDelegation
                  ELSE IF TypeNS \notin bm THEN ErrNSECNSMissing
                  ELSE ErrNone

\* C2 as amended: a missing NS gives NSMissing whether or not DS or SOA is
\* set; with NS set, DS or SOA gives BadDelegation; NS alone succeeds.
C2_NSMissingFirst ==
    (op = "verifyDelegation" /\ Matched(name)) =>
        LET bm == FirstMatching(name).TypeBitMap
        IN  err = IF TypeNS \notin bm THEN ErrNSECNSMissing
                  ELSE IF TypeDS \in bm \/ TypeSOA \in bm
                       THEN ErrNSECBadDelegation
                  ELSE ErrNone

\* C2 witness: the first of two matching records carries DS without NS, the
\* second NS alone, and the call has returned.
C2_Witness ==
    /\ op = "verifyDelegation"
    /\ Len(nsec) = 2
    /\ Match(nsec[1], name) /\ Match(nsec[2], name)
    /\ nsec[1].TypeBitMap = {TypeDS}
    /\ nsec[2].TypeBitMap = {TypeNS}
    /\ err = ErrNSECNSMissing

\* C3: the root is the last candidate of findClosestEncloser: when a record
\* matches the root and none matches a longer suffix, the root is returned as
\* encloser, with the one-label suffix of the name as next closer.
C3_RootIsCandidate ==
    (/\ op = "findClosestEncloser"
     /\ Matched(Root)
     /\ \A s \in LabelSuffixes(name) : ~Matched(s)) =>
        (ce = Root /\ nc = NextCloser(name, Root))

\* C4: findClosestEncloser returns the longest matched suffix A of the name
\* (the name itself included) and the suffix one label longer than A, or
\* the name when A is the name.
C4_LongestMatchedSuffix ==
    (op = "findClosestEncloser" /\ HasEncloser(name)) =>
        (/\ ce = ClosestEncloser(name)
         /\ nc = NextCloser(name, ClosestEncloser(name)))

\* C5: verifyNameError succeeds if and only if a closest encloser E of the
\* name exists and some record covers "*." + E; otherwise it returns
\* MissingCoverage.
C5_SuccessIffWildcardCovered ==
    (op = "verifyNameError") =>
        err = IF HasEncloser(name) /\ Covered(Wildcard(ClosestEncloser(name)))
              THEN ErrNone
              ELSE ErrNSECMissingCoverage

\* C6: with no record matching the queried name, verifyNODATA returns
\* MissingCoverage for a type other than DS; for DS, MissingCoverage when
\* there is no closest encloser or no record covers the next closer name,
\* OptOut when the first covering record has Opt-Out clear, success otherwise.
C6_UnmatchedNoData ==
    (op = "verifyNODATA" /\ ~Matched(name)) =>
        err = IF qtype # TypeDS THEN ErrNSECMissingCoverage
              ELSE IF ~HasEncloser(name) THEN ErrNSECMissingCoverage
              ELSE LET d == NextCloser(name, ClosestEncloser(name))
                   IN  IF ~Covered(d) THEN ErrNSECMissingCoverage
                       ELSE IF FirstCovering(d).Flags % 2 = 0
                            THEN ErrNSECOptOut
                       ELSE ErrNone

\* C7: with a record matching the queried name, verifyNODATA returns
\* TypeExists exactly when the first matching record's bitmap holds the
\* queried type or CNAME and succeeds otherwise; no closest encloser is
\* looked up, for DS as for any other type.
C7_MatchedNoData ==
    (op = "verifyNODATA" /\ Matched(name)) =>
        LET bm == FirstMatching(name).TypeBitMap
        IN  /\ err = IF qtype \in bm \/ TypeCNAME \in bm
                     THEN ErrNSECTypeExists
                     ELSE ErrNone
            /\ ce = Empty
            /\ nc = Empty

\* C7 witness: a DS query on a matched name whose first matching record
\* holds CNAME while a record covers the name's wildcard; TypeExists.
C7_Witness ==
    /\ op = "verifyNODATA"
    /\ qtype = TypeDS
    /\ Len(nsec) = 2
    /\ Match(nsec[1], name)
    /\ nsec[1].TypeBitMap = {TypeCNAME}
    /\ Cover(nsec[2], Wildcard(name))
    /\ err = ErrNSECTypeExists

\* C8: when no record matches any suffix of the name, the root included,
\* findClosestEncloser returns ("", "") and every verifier returns
\* MissingCoverage, whatever the records cover.
C8_NoEncloser ==
    (~HasEncloser(name)) =>
        /\ op = "findClosestEncloser" => (ce = Empty /\ nc = Empty)
        /\ op \in Verifiers => err = ErrNSECMissingCoverage

\* C8 witness: a DS no-data call on a name none of whose suffixes is matched,
\* while a record with Opt-Out set covers the name and its wildcard.
C8_Witness ==
    /\ op = "verifyNODATA"
    /\ qtype = TypeDS
    /\ name = NameOf(MaxLabels)
    /\ ~HasEncloser(name)
    /\ \E i \in DOMAIN nsec :
        /\ Cover(nsec[i], name)
        /\ Cover(nsec[i], Wildcard(name))
        /\ nsec[i].Flags = 1
    /\ err = ErrNSECMissingCoverage

\* The verdict of the last call is the verdict on every permutation of the
\* record set.
OrderIndependent ==
    (op \in Verifiers /\ NonAmbiguous(name)) =>
        \A rrs \in Reorderings(nsec) : Invoke(op, name, qtype, rrs).err = err

\* A call made again on the same arguments leaves the same result.
SameResultAgain ==
    (op # "idle" /\ op' = op /\ name' = name /\ qtype' = qtype /\ nsec' = nsec)
        => (err' = err /\ ce' = ce /\ nc' = nc)

\* C9: on a non-ambiguous record set the verdict of verifyNameError,
\* verifyNODATA and verifyDelegation is the same for every permutation of the
\* set, and a call repeated on the same inputs gives the same result.
C9_Deterministic == []OrderIndependent /\ [][SameResultAgain]_vars

\* C9 witness: two different records, one matching the closest encloser and
\* one covering the next closer name with Opt-Out set, no candidate matched
\* or covered twice; the delegation fallback succeeded.
C9_Witness ==
    /\ op = "verifyDelegation"
    /\ Len(nsec) = 2
    /\ NonAmbiguous(name)
    /\ ce # Empty
    /\ Match(nsec[2], ce) /\ ~Match(nsec[1], ce)
    /\ Cover(nsec[1], nc) /\ ~Cover(nsec[2], nc)
    /\ nsec[1].Flags # nsec[2].Flags
    /\ err = ErrNone

\* C10: in the fallback of verifyNODATA (type DS) and of verifyDelegation a
\* closest encloser that is found is a strict ancestor of the name and the
\* next closer name is the suffix one label longer, never the encloser; the
\* case nc = ce = name arises only where the full name was not tried first.
C10_FallbackStrictAncestor ==
    /\ (op \in {"verifyNODATA", "verifyDelegation"} /\ ce # Empty) =>
        /\ ce # name
        /\ ce \in LabelSuffixes(name)
        /\ nc \in LabelSuffixes(name)
        /\ CountLabel(nc) = CountLabel(ce) + 1
        /\ nc # ce
    /\ (ce # Empty /\ nc = ce) =>
        (op \in {"verifyNameError", "findClosestEncloser"} /\ ce = name)

\* C10 witness: a DS no-data call on a two-label name fell back to the
\* encloser one label above it and found the name covered without Opt-Out.
C10_Witness ==
    /\ op = "verifyNODATA"
    /\ qtype = TypeDS
    /\ CountLabel(name) = 2
    /\ ce = NameOf(1)
    /\ nc = name
    /\ err = ErrNSECOptOut

(* ------------- the closest-encloser claims below the root -------------- *)

\* The only matched suffix of the name is the root: the case in which
\* C3_RootIsCandidate fails.
RootOnly(n) == Matched(Root) /\ \A s \in LabelSuffixes(n) : ~Matched(s)

\* C4, C5 and C6 hold of every call but those whose closest encloser is the
\* root, which findClosestEncloser never tries (C3).
C4_BelowRoot == ~RootOnly(name) => C4_LongestMatchedSuffix

C5_BelowRoot == ~RootOnly(name) => C5_SuccessIffWildcardCovered

C6_BelowRoot == ~RootOnly(name) => C6_UnmatchedNoData

====
